---- MODULE Spec2Model ----
(***************************************************************************)
(* Model of the Excel/CSV combiner (src/Excel_CSVCombinerApp_v4_8.py):     *)
(* header de-duplication, the per-file extraction loop, the concatenation  *)
(* of the per-file tables, the optional lookup merge and the save step.    *)
(***************************************************************************)
EXTENDS Integers, Sequences, FiniteSets, TLC

VARIABLES
    columns,        \* argument of the _make_columns_unique call under study
    new_columns,    \* its return value
    upc,            \* position of that call: "idle" | "call" | "ret"
    settings,       \* the settings record handed to process_files
    folder,         \* files of input_folder, in listing order
    lookup_file,    \* the file at lookup_file_path
    pc,             \* position of the run inside process_files
    all_files,      \* process_files: all_files
    idx,            \* process_files: number of the next file of the loop
    all_data_frames,\* process_files: all_data_frames
    accepted,       \* numbers of the files whose frame was appended (history)
    combined,       \* final_df as pd.concat returned it (history)
    final_df,       \* process_files: final_df
    log,            \* what log_callback received, in order
    msgs,           \* messagebox calls, in order
    output,         \* the file at full_output_path
    reads,          \* the reads of the files of the loop, in order (history)
    start_btn,      \* App: state of the Start button
    workers,        \* App: number of live run_processing threads
    after_q,        \* App: callbacks scheduled with self.after and not yet run
    runs,           \* App: number of runs started (history)
    log_area,       \* App: the lines of the log widget, each with the
                    \* thread that inserted it
    prev            \* App: what the run before the current one left (history)

uvars == <<columns, new_columns, upc>>

avars == <<start_btn, workers, after_q, runs, prev>>

pvars == <<settings, folder, lookup_file, pc, all_files, idx, all_data_frames,
           accepted, combined, final_df, log, msgs, output, reads, start_btn,
           workers, after_q, runs, log_area, prev>>

vars == <<columns, new_columns, upc, settings, folder, lookup_file, pc,
          all_files, idx, all_data_frames, accepted, combined, final_df, log,
          msgs, output, reads, start_btn, workers, after_q, runs, log_area, prev>>

(***************************************************************************)
(* Cells.  A grid read with header=None holds untyped cells: text, numbers *)
(* and empty cells (NaN).  A cell is [k, s]: its kind and, for text and    *)
(* numbers, what str() prints for it.                                      *)
(***************************************************************************)
Txt(s) == [k |-> "txt", s |-> s]
Num(n) == [k |-> "num", s |-> ToString(n)]
NaN == [k |-> "nan", s |-> ""]

\* str(cell): text is itself, a number is its decimal form, NaN is "nan".
Str(c) == IF c.k = "nan" THEN "nan" ELSE c.s

(***************************************************************************)
(* _make_columns_unique                                                    *)
(***************************************************************************)
\* A suffix without its dot.
SuffixedNoDot(col_str, n) == col_str \o ToString(n)

\* f"{col_str}.{seen[col_str]}"
Suffixed(col_str, n) == col_str \o "." \o ToString(n)

\* seen = {}
EmptySeen == [c \in {} |-> 0]

\* The for loop: cols is what is left of the input, seen the dict, out the
\* list built so far.
RECURSIVE UniqueLoop(_, _, _)
UniqueLoop(cols, seen, out) ==
    IF cols = <<>> THEN out
    ELSE LET col_str == Str(Head(cols)) IN
         IF col_str \in DOMAIN seen
         THEN LET n == seen[col_str] + 1 IN
              UniqueLoop(Tail(cols), [seen EXCEPT ![col_str] = n],
                         Append(out, Suffixed(col_str, n)))
         ELSE UniqueLoop(Tail(cols), (col_str :> 0) @@ seen,
                         Append(out, col_str))

make_columns_unique(cols) == UniqueLoop(cols, EmptySeen, <<>>)

(***************************************************************************)
(* Tables.  A DataFrame is [cols, rows]: the column labels in order and    *)
(* the rows, each row a sequence of cells aligned to cols.  Labels may     *)
(* repeat, as pandas allows.                                               *)
(***************************************************************************)
Table(cols, rows) == [cols |-> cols, rows |-> rows]

EmptyTable == Table(<<>>, <<>>)

Range(q) == {q[i] : i \in DOMAIN q}

RECURSIVE Flatten(_)
Flatten(qq) == IF qq = <<>> THEN <<>> ELSE Head(qq) \o Flatten(Tail(qq))

\* Positions of the columns labelled name, left to right.
PositionsOf(cols, name) ==
    SelectSeq([i \in 1..Len(cols) |-> i], LAMBDA i : cols[i] = name)

HasDuplicates(cols) == \E i, j \in 1..Len(cols) : i # j /\ cols[i] = cols[j]

\* The columns at the given positions, in that order.
TakePositions(t, pos) ==
    Table([j \in 1..Len(pos) |-> t.cols[pos[j]]],
          [r \in 1..Len(t.rows) |-> [j \in 1..Len(pos) |-> t.rows[r][pos[j]]]])

\* df[names]: for each listed label in turn, every column that carries it.
SelectColumns(t, names) ==
    TakePositions(t, Flatten([n \in 1..Len(names) |-> PositionsOf(t.cols, names[n])]))

\* An assignment that leaves a column that exists as it is.
SetIfAbsent(t, name, value) ==
    IF name \in Range(t.cols) THEN t
    ELSE Table(Append(t.cols, name),
               [r \in 1..Len(t.rows) |-> Append(t.rows[r], value)])

\* df[name] = value (a scalar): every column labelled name is overwritten;
\* a new last column is added when there is none.
SetColumn(t, name, value) ==
    IF name \in Range(t.cols)
    THEN Table(t.cols,
               [r \in 1..Len(t.rows) |->
                   [j \in 1..Len(t.cols) |->
                       IF t.cols[j] = name THEN value ELSE t.rows[r][j]]])
    ELSE Table(Append(t.cols, name),
               [r \in 1..Len(t.rows) |-> Append(t.rows[r], value)])

\* df.drop(columns=[name]): every column labelled name goes.
DropColumn(t, name) ==
    TakePositions(t, SelectSeq([i \in 1..Len(t.cols) |-> i],
                               LAMBDA i : t.cols[i] # name))

\* Labels of a sequence of labels in order of first appearance.
RECURSIVE OrderedUnique(_, _)
OrderedUnique(labels, out) ==
    IF labels = <<>> THEN out
    ELSE OrderedUnique(Tail(labels),
                       IF Head(labels) \in Range(out) THEN out
                       ELSE Append(out, Head(labels)))

\* A frame padded to the width of U, its cells left where they were.
ReindexByPosition(t, U) ==
    Table(U,
          [r \in 1..Len(t.rows) |->
              [j \in 1..Len(U) |-> IF j <= Len(t.cols) THEN t.rows[r][j] ELSE NaN]])

\* A frame re-indexed to the labels U (the frame's labels are unique): a
\* label the frame lacks gives NaN.
Reindex(t, U) ==
    Table(U,
          [r \in 1..Len(t.rows) |->
              [j \in 1..Len(U) |->
                  IF U[j] \in Range(t.cols)
                  THEN t.rows[r][PositionsOf(t.cols, U[j])[1]]
                  ELSE NaN]])

\* A concatenation that stacks the frames last first.
ConcatLastFirst(frames) ==
    LET fr == [k \in 1..Len(frames) |-> frames[Len(frames) + 1 - k]] IN
    IF \A k \in 1..Len(fr) : fr[k].cols = fr[1].cols
    THEN [raised |-> FALSE,
          df |-> Table(fr[1].cols, Flatten([k \in 1..Len(fr) |-> fr[k].rows]))]
    ELSE LET U == OrderedUnique(Flatten([k \in 1..Len(frames) |-> frames[k].cols]), <<>>) IN
         IF \E k \in 1..Len(fr) : HasDuplicates(fr[k].cols)
         THEN [raised |-> TRUE, df |-> EmptyTable]
         ELSE [raised |-> FALSE,
               df |-> Table(U, Flatten([k \in 1..Len(fr) |-> Reindex(fr[k], U).rows]))]

\* pd.concat(frames, ignore_index=True).  Frames whose labels are all equal
\* are stacked as they are; otherwise the labels are united in order of
\* first appearance and every frame is re-indexed, which raises for a frame
\* with a repeated label.
Concat(frames) ==
    IF \A k \in 1..Len(frames) : frames[k].cols = frames[1].cols
    THEN [raised |-> FALSE,
          df |-> Table(frames[1].cols,
                       Flatten([k \in 1..Len(frames) |-> frames[k].rows]))]
    ELSE LET U == OrderedUnique(Flatten([k \in 1..Len(frames) |-> frames[k].cols]), <<>>) IN
         IF \E k \in 1..Len(frames) : HasDuplicates(frames[k].cols)
         THEN [raised |-> TRUE, df |-> EmptyTable]
         ELSE [raised |-> FALSE,
               df |-> Table(U, Flatten([k \in 1..Len(frames) |-> Reindex(frames[k], U).rows]))]

(***************************************************************************)
(* Settings and log lines.                                                 *)
(***************************************************************************)
\* One comma-separated entry of a list setting: its text and whether blanks
\* surround it.  col.strip() gives the text.
Entry(pad, text) == [pad |-> pad, text |-> text]

Strip(e) == e.text

\* The list without the filter of its blank entries.
ParseKeepingBlanks(entries) == [i \in 1..Len(entries) |-> Strip(entries[i])]

\* [col.strip() for col in setting.split(',') if col.strip()]
ParseColumnList(entries) ==
    SelectSeq([i \in 1..Len(entries) |-> Strip(entries[i])], LAMBDA c : c # "")

\* One call of log_callback: which message, about which file, with which
\* names and count.
Line(ev, file, names, n) == [ev |-> ev, file |-> file, names |-> names, n |-> n]

\* One messagebox call.
Box(kind, title) == [kind |-> kind, title |-> title]

(***************************************************************************)
(* One turn of the file loop.                                              *)
(***************************************************************************)
\* The read without the latin-1 retry: a UTF-8 decoding error fails the file.
ReadFrameNoRetry(f) ==
    IF f.ext \in {"xlsx", "xlsm"}
    THEN [raised |-> f.read # "ok", df |-> f.grid, logs |-> <<>>, reads |-> <<"excel">>]
    ELSE IF f.ext \notin {"csv", "txt"}
    THEN [raised |-> FALSE, df |-> <<>>, logs |-> <<>>, reads |-> <<>>]
    ELSE [raised |-> f.read # "ok", df |-> f.grid, logs |-> <<>>, reads |-> <<"utf-8">>]

\* Lines 96-110: the frame read from the file, whether the read raised, the
\* warning of the latin-1 retry, and the reads made with their encodings.
ReadFrame(f) ==
    IF f.ext \in {"xlsx", "xlsm"}
    THEN [raised |-> f.read # "ok", df |-> f.grid, logs |-> <<>>, reads |-> <<"excel">>]
    ELSE IF f.ext \notin {"csv", "txt"}
    THEN [raised |-> FALSE, df |-> <<>>, logs |-> <<>>, reads |-> <<>>]
    ELSE CASE f.read = "ok" ->
                [raised |-> FALSE, df |-> f.grid, logs |-> <<>>, reads |-> <<"utf-8">>]
           [] f.read = "utf8_error" ->
                [raised |-> FALSE, df |-> f.grid,
                 logs |-> <<Line("warn_utf8", f.name, <<>>, 0)>>,
                 reads |-> <<"utf-8", "latin-1">>]
           [] f.read = "utf8_latin1_error" ->
                [raised |-> TRUE, df |-> f.grid,
                 logs |-> <<Line("warn_utf8", f.name, <<>>, 0)>>,
                 reads |-> <<"utf-8", "latin-1">>]
           [] OTHER ->
                [raised |-> TRUE, df |-> f.grid, logs |-> <<>>, reads |-> <<"utf-8">>]

\* df.iloc[i] for a 0-based i, negative counting from the end; 0 when the
\* position is out of bounds (IndexError).
IlocRow(n, i) ==
    IF i >= 0 THEN (IF i < n THEN i + 1 ELSE 0)
    ELSE (IF n + i >= 0 THEN n + i + 1 ELSE 0)

\* A slice that starts one row late.
IlocAfter(n, i) == IF i >= 0 THEN i + 2 ELSE 1

\* First row (1-based) of df.iloc[i:].
IlocFrom(n, i) ==
    IF i >= 0 THEN i + 1 ELSE (IF n + i >= 0 THEN n + i + 1 ELSE 1)

\* Lines 116-120: header row, unique labels, data rows.
NormalizeFrame(grid, header_row_index, data_start_row_index) ==
    Table(make_columns_unique(grid[IlocRow(Len(grid), header_row_index)]),
          SubSeq(grid, IlocFrom(Len(grid), data_start_row_index), Len(grid)))

\* Lines 124-125.
ExistingCols(requested, t) == SelectSeq(requested, LAMBDA c : c \in Range(t.cols))
MissingCols(requested, t) == SelectSeq(requested, LAMBDA c : c \notin Range(t.cols))

\* The selection without the skip of a file that has none of the names.
SelectAndTagNoSkip(data_df, f, requested) ==
    LET selected == IF requested # <<>>
                    THEN SelectColumns(data_df, ExistingCols(requested, data_df))
                    ELSE data_df
        tagged == SetColumn(selected, "source_file", Txt(f.name))
    IN  [status |-> "ok", frame |-> tagged,
         logs |-> <<Line("extracted", f.name, <<>>, Len(tagged.rows))>>]

\* Lines 122-136 for a normalized frame: the selection, the source_file
\* column, the frame to append (status "ok") or the skip.
SelectAndTag(data_df, f, requested) ==
    LET existing_cols == ExistingCols(requested, data_df)
        missing_cols == MissingCols(requested, data_df)
        warn == IF requested # <<>> /\ missing_cols # <<>>
                THEN <<Line("warn_missing", f.name, missing_cols, 0)>> ELSE <<>>
    IN  IF requested # <<>> /\ existing_cols = <<>>
        THEN [status |-> "skipped", frame |-> EmptyTable,
              logs |-> warn \o <<Line("warn_none_found", f.name, <<>>, 0)>>]
        ELSE LET selected == IF requested # <<>>
                             THEN SelectColumns(data_df, existing_cols)
                             ELSE data_df
                 tagged == SetColumn(selected, "source_file", Txt(f.name))
             IN  [status |-> "ok", frame |-> tagged,
                  logs |-> warn \o <<Line("extracted", f.name, <<>>, Len(tagged.rows))>>]

\* A loop that an error ends.
AbortOnError(status, i, n) == IF status = "error" THEN n + 1 ELSE i + 1

\* What follows a file of the given status: the next file, whatever the
\* status (continue, and the except clause that only logs).
NextFile(status, i, n) == i + 1

\* Lines 94-139 for file number i of n.
ProcessOne(f, i, n, st) ==
    LET header_row_index == st.header_row - 1
        data_start_row_index == st.data_start_row - 1
        requested == ParseColumnList(st.columns_to_extract)
        head == <<Line("processing", f.name, <<>>, i)>>
        rd == ReadFrame(f)
        rds == [k \in 1..Len(rd.reads) |-> [file |-> f.name, encoding |-> rd.reads[k]]]
    IN  IF rd.raised
        THEN [status |-> "error", frame |-> EmptyTable, reads |-> rds,
              logs |-> head \o rd.logs \o <<Line("file_error", f.name, <<>>, 0)>>]
        ELSE IF f.ext \notin {"xlsx", "xlsm", "csv", "txt"}
                \/ Len(rd.df) < data_start_row_index
        THEN [status |-> "skipped", frame |-> EmptyTable, reads |-> rds,
              logs |-> head \o rd.logs \o <<Line("warn_rows", f.name, <<>>, 0)>>]
        ELSE IF IlocRow(Len(rd.df), header_row_index) = 0
        THEN [status |-> "error", frame |-> EmptyTable, reads |-> rds,
              logs |-> head \o rd.logs \o <<Line("file_error", f.name, <<>>, 0)>>]
        ELSE LET r == SelectAndTag(
                          NormalizeFrame(rd.df, header_row_index, data_start_row_index),
                          f, requested)
             IN  [status |-> r.status, frame |-> r.frame, reads |-> rds,
                  logs |-> head \o rd.logs \o r.logs]

(***************************************************************************)
(* The merge with the lookup file (lines 149-203).                         *)
(***************************************************************************)
\* Lines 161-176: the lookup frame, whether the read raised (or left
\* lookup_df_full None), and the warning of the latin-1 retry.
ReadLookup(lf, st) ==
    LET as_text == lf.ext = "csv" \/ (st.enable_lookup_txt /\ lf.ext = "txt")
        warn == <<Line("warn_lookup_utf8", "", <<>>, 0)>>
    IN  CASE lf.read = "ok" -> [raised |-> FALSE, df |-> lf.grid, logs |-> <<>>]
          [] lf.read = "utf8_error" /\ as_text ->
                [raised |-> FALSE, df |-> lf.grid, logs |-> warn]
          [] lf.read = "utf8_latin1_error" /\ as_text ->
                [raised |-> TRUE, df |-> lf.grid, logs |-> warn]
          [] OTHER -> [raised |-> TRUE, df |-> lf.grid, logs |-> <<>>]

\* cell of Series.astype(str)
AsTypeStr(c) == Txt(Str(c))

\* df[name] = df[name].astype(str): every column labelled name.
AsTypeStrColumn(t, name) ==
    Table(t.cols,
          [r \in 1..Len(t.rows) |->
              [j \in 1..Len(t.cols) |->
                  IF t.cols[j] = name THEN AsTypeStr(t.rows[r][j]) ELSE t.rows[r][j]]])

\* Line 189.
ColumnsForSubset(lookup_key, cols_to_add) ==
    <<lookup_key>> \o SelectSeq(cols_to_add, LAMBDA c : c # lookup_key)

\* Labels of one side of a merge: a label the other side has too gets the
\* side's suffix.
Relabel(cols, other, suffix) ==
    [j \in 1..Len(cols) |-> IF cols[j] \in Range(other) THEN cols[j] \o suffix ELSE cols[j]]

\* Rows of an inner join: a left row without a match is dropped.
InnerJoinRows(lrows, lkey, lkeep, rrows, rkey, rkeep) ==
    Flatten([i \in 1..Len(lrows) |->
        LET lpart == [j \in 1..Len(lkeep) |-> lrows[i][lkeep[j]]]
            hits == SelectSeq([m \in 1..Len(rrows) |-> m],
                              LAMBDA m : lrows[i][lkey] = rrows[m][rkey])
        IN  [h \in 1..Len(hits) |->
                lpart \o [j \in 1..Len(rkeep) |-> rrows[hits[h]][rkeep[j]]]]])

\* Rows of a left join: each left row once per matching right row, in right
\* order, or once with NaN for the right side when nothing matches.
LeftJoinRows(lrows, lkey, lkeep, rrows, rkey, rkeep) ==
    Flatten([i \in 1..Len(lrows) |->
        LET lpart == [j \in 1..Len(lkeep) |-> lrows[i][lkeep[j]]]
            hits == SelectSeq([m \in 1..Len(rrows) |-> m],
                              LAMBDA m : lrows[i][lkey] = rrows[m][rkey])
        IN  IF hits = <<>>
            THEN <<lpart \o [j \in 1..Len(rkeep) |-> NaN]>>
            ELSE [h \in 1..Len(hits) |->
                     lpart \o [j \in 1..Len(rkeep) |-> rrows[hits[h]][rkeep[j]]]]])

\* A merge that keeps both key columns whatever their names.
KeepBothKeys(same, left_rows) == "none"

\* Which key column a merge on equally named keys drops: the right one, or
\* the left one when the left frame has no rows.
DroppedKey(same, left_rows) ==
    IF ~same THEN "none" ELSE IF left_rows > 0 THEN "right" ELSE "left"

\* pd.merge(left, right, left_on=source_key, right_on=lookup_key,
\* how='left'); each key label occurs once on its side.
LeftMerge(left, right, source_key, lookup_key) ==
    LET lkey == PositionsOf(left.cols, source_key)[1]
        rkey == PositionsOf(right.cols, lookup_key)[1]
        drop == DroppedKey(source_key = lookup_key, Len(left.rows))
        lkeep == SelectSeq([i \in 1..Len(left.cols) |-> i],
                           LAMBDA i : ~(drop = "left" /\ i = lkey))
        rkeep == SelectSeq([i \in 1..Len(right.cols) |-> i],
                           LAMBDA i : ~(drop = "right" /\ i = rkey))
        lcols == [j \in 1..Len(lkeep) |-> left.cols[lkeep[j]]]
        rcols == [j \in 1..Len(rkeep) |-> right.cols[rkeep[j]]]
    IN  Table(Relabel(lcols, rcols, "_x") \o Relabel(rcols, lcols, "_y"),
              LeftJoinRows(left.rows, lkey, lkeep, right.rows, rkey, rkeep))

\* Lines 153-199: the body of the try.  ok tells whether it reached "Merge
\* successful"; df is final_df as the body left it.
MergeBody(df, lf, st) ==
    LET source_key == st.source_key_column
        lookup_key == st.lookup_key_column
        cols_to_add == ParseColumnList(st.lookup_columns_to_add)
        hri == st.lookup_header_row - 1
        dsi == st.lookup_data_start_row - 1
        rd == ReadLookup(lf, st)
        fail(d) == [ok |-> FALSE, df |-> d, logs |-> rd.logs]
    IN  IF rd.raised \/ IlocRow(Len(rd.df), hri) = 0 THEN fail(df)
        ELSE IF source_key \notin Range(df.cols) THEN fail(df)
        ELSE
        LET lookup_df == NormalizeFrame(rd.df, hri, dsi)
            df1 == AsTypeStrColumn(df, source_key)
            subset_cols == ColumnsForSubset(lookup_key, cols_to_add)
        IN  IF lookup_key \notin Range(lookup_df.cols) THEN fail(df1)
            ELSE IF \E c \in Range(subset_cols) : c \notin Range(lookup_df.cols)
            THEN fail(df1)
            ELSE
            LET lookup_subset ==
                    SelectColumns(AsTypeStrColumn(lookup_df, lookup_key), subset_cols)
            IN  IF Len(PositionsOf(df1.cols, source_key)) # 1
                   \/ Len(PositionsOf(lookup_subset.cols, lookup_key)) # 1
                THEN fail(df1)
                ELSE
                LET merged == LeftMerge(df1, lookup_subset, source_key, lookup_key) IN
                IF source_key # lookup_key /\ lookup_key \notin Range(cols_to_add)
                THEN IF lookup_key \notin Range(merged.cols)
                     THEN fail(merged)
                     ELSE [ok |-> TRUE, df |-> DropColumn(merged, lookup_key),
                           logs |-> rd.logs]
                ELSE [ok |-> TRUE, df |-> merged, logs |-> rd.logs]

\* What to_csv / to_excel writes for a cell: nothing for NaN, else its text.
Field(c) == IF c.k = "nan" THEN "" ELSE c.s

\* A written file that tells which run wrote it.
WrittenWithRun(t) ==
    [written |-> TRUE, header |-> Append(t.cols, ToString(runs)),
     lines |-> [r \in 1..Len(t.rows) |-> [j \in 1..Len(t.rows[r]) |-> Field(t.rows[r][j])]]]

\* The written file: the header line and one line of fields per row.
Written(t) ==
    [written |-> TRUE, header |-> t.cols,
     lines |-> [r \in 1..Len(t.rows) |-> [j \in 1..Len(t.rows[r]) |-> Field(t.rows[r][j])]]]

NoOutput == [written |-> FALSE, header |-> <<>>, lines |-> <<>>]

\* What a run leaves: its log, its message boxes, its final table and the
\* output file.
Left(l, m, t, o) == [log |-> l, msgs |-> m, final_df |-> t, output |-> o]

NoRun == Left(<<>>, <<>>, [cols |-> <<>>, rows |-> <<>>], NoOutput)

(***************************************************************************)
(* The steps of process_files.                                             *)
(***************************************************************************)
\* App.log (lines 433-437), the log_callback of process_files: the calling
\* thread inserts the line at the end of the log widget.  process_files
\* runs in the thread started at line 445.
Inserted(lines) == [i \in 1..Len(lines) |-> [line |-> lines[i], thread |-> "worker"]]

\* The lines a step has added to the log.
NewLines(before, after) == SubSeq(after, Len(before) + 1, Len(after))

\* The patterns with *.txt whatever the setting.
AllPatterns(st) == <<"xlsx", "xlsm", "csv", "txt">>

\* Lines 77-84: the files of the folder matching each pattern in turn.
FilePatterns(st) ==
    <<"xlsx", "xlsm", "csv">> \o (IF st.enable_txt_processing THEN <<"txt">> ELSE <<>>)

Glob(files, ext) == SelectSeq(files, LAMBDA f : f.ext = ext)

\* Lines 69-91.
Discover ==
    /\ pc = "start"
    /\ LET patterns == FilePatterns(settings)
           found == Flatten([p \in 1..Len(patterns) |-> Glob(folder, patterns[p])])
           head == <<Line("start", "", <<>>, 0)>>
                   \o (IF settings.enable_txt_processing
                       THEN <<Line("txt_enabled", "", <<>>, 0)>> ELSE <<>>)
       IN  /\ all_files' = found
           /\ IF found = <<>>
              THEN /\ log' = log \o head \o <<Line("no_files", "", <<>>, 0)>>
                   /\ pc' = "done"
              ELSE /\ log' = log \o head \o <<Line("found", "", <<>>, Len(found))>>
                   /\ pc' = "loop"
    /\ idx' = 1
    /\ all_data_frames' = <<>>
    /\ accepted' = <<>>
    /\ log_area' = log_area \o Inserted(NewLines(log, log'))
    /\ UNCHANGED <<settings, folder, lookup_file, combined, final_df, msgs, output,
                   reads, avars, uvars>>

\* Lines 93-139: one turn of the loop.
ProcessFile ==
    /\ pc = "loop"
    /\ idx <= Len(all_files)
    /\ LET r == ProcessOne(all_files[idx], idx, Len(all_files), settings) IN
       /\ log' = log \o r.logs
       /\ all_data_frames' = IF r.status = "ok"
                             THEN Append(all_data_frames, r.frame) ELSE all_data_frames
       /\ accepted' = IF r.status = "ok" THEN Append(accepted, idx) ELSE accepted
       /\ idx' = NextFile(r.status, idx, Len(all_files))
       /\ reads' = reads \o r.reads
    /\ log_area' = log_area \o Inserted(NewLines(log, log'))
    /\ UNCHANGED <<settings, folder, lookup_file, pc, all_files, combined, final_df,
                   msgs, output, avars, uvars>>

\* Lines 141-147, and lines 469-471 of run_processing for a concat that
\* raises.
Combine ==
    /\ pc = "loop"
    /\ idx > Len(all_files)
    /\ IF all_data_frames = <<>>
       THEN /\ log' = Append(log, Line("no_data", "", <<>>, 0))
            /\ pc' = "done"
            /\ UNCHANGED <<final_df, combined, msgs>>
       ELSE LET c == Concat(all_data_frames) IN
            IF c.raised
            THEN /\ log' = log \o <<Line("combining", "", <<>>, 0),
                                    Line("critical_error", "", <<>>, 0)>>
                 /\ msgs' = Append(msgs, Box("error", "Critical Error"))
                 /\ pc' = "done"
                 /\ UNCHANGED <<final_df, combined>>
            ELSE /\ final_df' = c.df
                 /\ combined' = c.df
                 /\ log' = log \o <<Line("combining", "", <<>>, 0),
                                    Line("combined_rows", "", <<>>, Len(c.df.rows))>>
                 /\ pc' = "merge"
                 /\ UNCHANGED msgs
    /\ log_area' = log_area \o Inserted(NewLines(log, log'))
    /\ UNCHANGED <<settings, folder, lookup_file, all_files, idx, all_data_frames,
                   accepted, output, reads, avars, uvars>>

\* Lines 149-203.
Merge ==
    /\ pc = "merge"
    /\ IF ~settings.enable_merge
       THEN /\ pc' = "save"
            /\ UNCHANGED <<final_df, log, msgs>>
       ELSE \E m \in {MergeBody(final_df, lookup_file, settings)} :
            LET head == <<Line("merge_start", "", <<>>, 0),
                          Line("reading_lookup", "", <<>>, 0)>> \o m.logs
            IN  /\ final_df' = m.df
                /\ log' = log \o head \o
                          <<Line(IF m.ok THEN "merge_ok" ELSE "merge_error", "", <<>>, 0)>>
                /\ msgs' = IF m.ok THEN msgs
                           ELSE Append(msgs, Box("error", "Merge Error"))
                /\ pc' = "save"
    /\ log_area' = log_area \o Inserted(NewLines(log, log'))
    /\ UNCHANGED <<settings, folder, lookup_file, all_files, idx, all_data_frames,
                   accepted, combined, output, reads, avars, uvars>>

\* Lines 205-222: the write succeeds or raises.
Save ==
    /\ pc = "save"
    /\ \E write_ok \in BOOLEAN :
          IF write_ok
          THEN /\ output' = Written(final_df)
               /\ log' = log \o <<Line("done", "", <<>>, 0),
                                  Line("total_rows", "", <<>>, Len(final_df.rows))>>
               /\ msgs' = Append(msgs, Box("info", "Done"))
          ELSE /\ output' = output
               /\ log' = Append(log, Line("save_error", "", <<>>, 0))
               /\ msgs' = Append(msgs, Box("error", "Save Error"))
    /\ pc' = "done"
    /\ log_area' = log_area \o Inserted(NewLines(log, log'))
    /\ UNCHANGED <<settings, folder, lookup_file, all_files, idx, all_data_frames,
                   accepted, combined, final_df, reads, avars, uvars>>

Next == Discover \/ ProcessFile \/ Combine \/ Merge \/ Save

(***************************************************************************)
(* Bounded inputs.                                                         *)
(***************************************************************************)
MaxHeaderLen == 4
MaxFiles == 2
MaxGridRows == 3
MaxKeyRows == 2
MaxStartRow == 3
MaxRuns == 2

HeaderCells == {Txt("SKU"), Txt("SKU.1"), Txt("Price"), Txt("7"), Num(7), NaN}

SeqsUpTo(S, n) == UNION {[1..m -> S] : m \in 0..n}

Names(q) == [i \in 1..Len(q) |-> Txt(q[i])]

\* "a, b, c" as the entries between its commas.
Listed(q) == IF q = <<>> THEN <<Entry(FALSE, "")>>
             ELSE [i \in 1..Len(q) |-> Entry(i > 1, q[i])]

\* The settings that run_processing may require.
SettingFields ==
    {"input_folder", "output_folder", "sheet_name", "header_row", "data_start_row",
     "output_filename", "txt_delimiter", "lookup_file_path", "lookup_header_row",
     "lookup_data_start_row", "source_key_column", "lookup_key_column",
     "lookup_columns_to_add", "lookup_txt_delimiter"}

\* Settings as load_settings returns them, with row numbers 1 and 2 and
\* every field filled in; text holds what str() gives for each field.
DefaultSettings ==
    [text |-> [f \in SettingFields |-> Entry(FALSE, "x")],
     header_row |-> 1, data_start_row |-> 2,
     columns_to_extract |-> Listed(<<"SKU", "Price", "Quantity">>),
     enable_txt_processing |-> FALSE,
     enable_merge |-> FALSE,
     source_key_column |-> "SKU", lookup_key_column |-> "SKU",
     lookup_columns_to_add |-> Listed(<<"ASIN", "Description">>),
     enable_lookup_txt |-> FALSE,
     lookup_header_row |-> 1, lookup_data_start_row |-> 2]

\* A data cell that tells its file, row and column.
DataCell(i, r, c) == Txt("v" \o ToString(i) \o ToString(r) \o ToString(c))

\* A grid of n rows whose first row is the header and whose other cells
\* are all different.
GridOf(i, header, n) ==
    IF n = 0 THEN <<>>
    ELSE <<header>> \o [r \in 1..(n - 1) |-> [c \in 1..Len(header) |-> DataCell(i, r, c)]]

\* A grid whose first column holds the given key cells.
KeyedGrid(i, header, keys) ==
    <<header>> \o [r \in 1..Len(keys) |->
                     [c \in 1..Len(header) |-> IF c = 1 THEN keys[r] ELSE DataCell(i, r, c)]]

FileOf(i, ext, read, grid) ==
    [name |-> "f" \o ToString(i) \o "." \o ext, ext |-> ext, read |-> read, grid |-> grid]

NoLookup == [ext |-> "xlsx", read |-> "error", grid |-> <<>>]

PipelineIdle ==
    /\ settings = DefaultSettings
    /\ folder = <<>>
    /\ lookup_file = NoLookup
    /\ pc = "idle"
    /\ all_files = <<>>
    /\ idx = 1
    /\ all_data_frames = <<>>
    /\ accepted = <<>>
    /\ combined = EmptyTable
    /\ final_df = EmptyTable
    /\ log = <<>>
    /\ msgs = <<>>
    /\ output = NoOutput
    /\ reads = <<>>
    /\ start_btn = "normal"
    /\ workers = 0
    /\ after_q = 0
    /\ runs = 0
    /\ log_area = <<>>
    /\ prev = NoRun

\* State at the call of process_files.
AtStart ==
    /\ pc = "start"
    /\ all_files = <<>>
    /\ idx = 1
    /\ all_data_frames = <<>>
    /\ accepted = <<>>
    /\ combined = EmptyTable
    /\ final_df = EmptyTable
    /\ log = <<>>
    /\ msgs = <<>>
    /\ output = NoOutput
    /\ reads = <<>>
    /\ start_btn = "disabled"
    /\ workers = 1
    /\ after_q = 0
    /\ runs = 1
    /\ log_area = <<>>
    /\ prev = NoRun
    /\ columns = <<>>
    /\ new_columns = <<>>
    /\ upc = "idle"

UInit ==
    /\ columns \in SeqsUpTo(HeaderCells, MaxHeaderLen)
    /\ new_columns = <<>>
    /\ upc = "call"
    /\ PipelineIdle

CallMakeUnique ==
    /\ upc = "call"
    /\ new_columns' = make_columns_unique(columns)
    /\ upc' = "ret"
    /\ UNCHANGED <<columns, pvars>>

UNext == CallMakeUnique

SpecUnique == UInit /\ [][UNext]_vars

(***************************************************************************)
(* Runs over folders of files with different headers (Spec).               *)
(***************************************************************************)
FileHeaders ==
    {Names(<<"SKU", "Price">>), Names(<<"SKU", "ASIN">>), Names(<<"Price", "SKU">>),
     Names(<<"ASIN">>), Names(<<"SKU", "SKU", "SKU.1">>)}

Requests ==
    {<<>>, <<"SKU">>, <<"SKU", "Price">>, <<"Price", "SKU">>, <<"SKU", "Qty">>,
     <<"Qty">>, <<"SKU.1">>, <<"SKU", "SKU">>}

\* The kinds of file of a folder: workbooks that read or fail to read, and
\* csv files that decode as UTF-8, only as latin-1, or not at all.
FileKinds ==
    {[ext |-> "xlsx", read |-> "ok", header |-> h, n |-> n] :
         h \in FileHeaders, n \in 0..MaxGridRows}
    \cup {[ext |-> "xlsx", read |-> "error", header |-> <<>>, n |-> 0]}
    \cup {[ext |-> "csv", read |-> r, header |-> Names(<<"SKU", "Price">>), n |-> 2] :
         r \in {"utf8_error", "utf8_latin1_error"}}

FolderOf(kinds) ==
    [i \in 1..Len(kinds) |->
        FileOf(i, kinds[i].ext, kinds[i].read, GridOf(i, kinds[i].header, kinds[i].n))]

Folders == {FolderOf(kinds) : kinds \in SeqsUpTo(FileKinds, MaxFiles)}

SimpleLookup ==
    [ext |-> "csv", read |-> "ok",
     grid |-> <<Names(<<"SKU", "ASIN", "Description">>),
                <<Txt("v111"), Txt("a1"), Txt("d1")>>>>]

\* Settings texts without a name: "", "  " and ", ".
BlankLists ==
    {<<Entry(FALSE, "")>>, <<Entry(TRUE, "")>>, <<Entry(FALSE, ""), Entry(TRUE, "")>>}

Init ==
    /\ AtStart
    /\ folder \in Folders
    /\ lookup_file = SimpleLookup
    /\ \/ \E req \in Requests :
             settings = [DefaultSettings EXCEPT !.columns_to_extract = Listed(req)]
       \/ \E b \in BlankLists :
             settings = [DefaultSettings EXCEPT !.columns_to_extract = b]
       \/ settings = [DefaultSettings EXCEPT !.columns_to_extract = Listed(<<>>),
                                              !.enable_merge = TRUE]

Spec == Init /\ [][Next]_vars

(***************************************************************************)
(* Runs with the merge enabled, over key columns of text, numbers and      *)
(* empty cells (SpecMerge).                                                *)
(***************************************************************************)
KeyCells == {Txt("7"), Num(7), NaN}

LeftHeaders == {Names(<<"SKU", "Price">>), Names(<<"SKU", "ASIN">>)}

LookupHeaders ==
    {Names(<<"SKU", "ASIN">>), Names(<<"ASIN", "Price">>), Names(<<"ASIN", "Description">>)}

LookupFiles ==
    {[ext |-> "xlsx", read |-> "ok", grid |-> KeyedGrid(0, h, keys)] :
         h \in LookupHeaders, keys \in SeqsUpTo(KeyCells, MaxKeyRows)}
    \cup {[ext |-> "xlsx", read |-> "error", grid |-> <<>>],
          [ext |-> "csv", read |-> "utf8_error",
           grid |-> KeyedGrid(0, Names(<<"SKU", "ASIN">>), <<Txt("7")>>)],
          [ext |-> "xlsx", read |-> "ok", grid |-> <<>>]}

ColsToAdd ==
    {<<"ASIN">>, <<"Price">>, <<"ASIN", "Description">>, <<"SKU", "ASIN">>, <<"Qty">>}

MergeSettings ==
    {[DefaultSettings EXCEPT !.columns_to_extract = Listed(<<>>),
                             !.enable_merge = TRUE,
                             !.source_key_column = sk,
                             !.lookup_key_column = lk,
                             !.lookup_columns_to_add = Listed(add)] :
         sk \in {"SKU"}, lk \in {"SKU", "ASIN"}, add \in ColsToAdd}
    \cup {[DefaultSettings EXCEPT !.columns_to_extract = Listed(<<>>),
                                  !.enable_merge = TRUE,
                                  !.source_key_column = "Qty",
                                  !.lookup_columns_to_add = Listed(<<"ASIN">>)]}

MergeInit ==
    /\ AtStart
    /\ \E h \in LeftHeaders, keys \in SeqsUpTo(KeyCells, MaxKeyRows) :
          folder = <<FileOf(1, "xlsx", "ok", KeyedGrid(1, h, keys))>>
    /\ lookup_file \in LookupFiles
    /\ settings \in MergeSettings

SpecMerge == MergeInit /\ [][Next]_vars

(***************************************************************************)
(* Runs over header_row and data_start_row settings and grids of every     *)
(* length (SpecRows).                                                      *)
(***************************************************************************)
RowKinds ==
    {[ext |-> "xlsx", read |-> "ok", header |-> Names(<<"SKU", "Price">>), n |-> n] :
         n \in 0..MaxGridRows}

RowsInit ==
    /\ AtStart
    /\ folder \in {FolderOf(kinds) : kinds \in SeqsUpTo(RowKinds, MaxFiles)}
    /\ lookup_file = SimpleLookup
    /\ \E hr, dsr \in 1..MaxStartRow, merge \in BOOLEAN :
          settings = [DefaultSettings EXCEPT !.header_row = hr,
                                             !.data_start_row = dsr,
                                             !.columns_to_extract = Listed(<<>>),
                                             !.enable_merge = merge]

SpecRows == RowsInit /\ [][Next]_vars

(***************************************************************************)
(* Runs over folders of csv and txt files that decode as UTF-8, only as    *)
(* latin-1, or not at all, with the txt processing on and off (SpecText).  *)
(***************************************************************************)
TextKinds ==
    {[ext |-> e, read |-> r, header |-> Names(<<"SKU", "Price">>), n |-> 2] :
         e \in {"csv", "txt"}, r \in {"ok", "utf8_error", "utf8_latin1_error", "error"}}
    \cup {[ext |-> "xlsx", read |-> "ok", header |-> Names(<<"SKU", "Price">>), n |-> 2],
          [ext |-> "csv", read |-> "utf8_error", header |-> <<>>, n |-> 0]}

TextInit ==
    /\ AtStart
    /\ folder \in {FolderOf(kinds) : kinds \in SeqsUpTo(TextKinds, MaxFiles)}
    /\ lookup_file = SimpleLookup
    /\ \E txt, merge \in BOOLEAN, req \in {<<>>, <<"Qty">>} :
          settings = [DefaultSettings EXCEPT !.columns_to_extract = Listed(req),
                                             !.enable_txt_processing = txt,
                                             !.enable_merge = merge]

SpecText == TextInit /\ [][Next]_vars

(***************************************************************************)
(* Runs over files whose header has a source_file column (SpecProv).       *)
(***************************************************************************)
ProvHeaders ==
    {Names(<<"SKU", "Price">>), Names(<<"SKU", "source_file">>),
     Names(<<"source_file", "SKU">>), Names(<<"source_file", "source_file">>)}

ProvRequests ==
    {<<>>, <<"SKU">>, <<"source_file">>, <<"SKU", "source_file">>,
     <<"source_file", "source_file">>}

ProvKinds ==
    {[ext |-> "xlsx", read |-> "ok", header |-> h, n |-> n] :
         h \in ProvHeaders, n \in 2..MaxGridRows}

ProvInit ==
    /\ AtStart
    /\ folder \in {FolderOf(kinds) : kinds \in SeqsUpTo(ProvKinds, MaxFiles)}
    /\ lookup_file = SimpleLookup
    /\ \E req \in ProvRequests :
          settings = [DefaultSettings EXCEPT !.columns_to_extract = Listed(req)]

SpecProv == ProvInit /\ [][Next]_vars

(***************************************************************************)
(* The application: the Start button, the worker thread that runs          *)
(* run_processing, and the Tk main loop (SpecApp).                         *)
(***************************************************************************)
\* Lines 451-459 without the fields of the merge.
RequiredFieldsBase(st) ==
    <<"input_folder", "output_folder", "sheet_name", "header_row", "data_start_row",
      "output_filename">>
    \o (IF st.enable_txt_processing THEN <<"txt_delimiter">> ELSE <<>>)

\* Lines 451-459.
RequiredFields(st) ==
    <<"input_folder", "output_folder", "sheet_name", "header_row", "data_start_row",
      "output_filename">>
    \o (IF st.enable_txt_processing THEN <<"txt_delimiter">> ELSE <<>>)
    \o (IF st.enable_merge
        THEN <<"lookup_file_path", "lookup_header_row", "lookup_data_start_row",
               "source_key_column", "lookup_key_column", "lookup_columns_to_add">>
             \o (IF st.enable_lookup_txt THEN <<"lookup_txt_delimiter">> ELSE <<>>)
        ELSE <<>>)

\* Line 461: the required fields whose text is blank after strip().
MissingFields(st) ==
    SelectSeq(RequiredFields(st), LAMBDA f : Strip(st.text[f]) = "")

\* A Start button that stays enabled.
LeftNormal == "normal"

\* Line 440: the state start_processing_thread gives the Start button.
StartState == "disabled"

\* A finally clause that schedules nothing.
NothingScheduled(q) == q

\* Line 473: self.after(0, ...) adds a callback for the main loop.
ScheduleCallback(q) == q + 1

\* Lines 439-446, start_processing_thread, the command of the Start button
\* (a disabled button does not invoke it): the button is disabled, the log
\* widget is emptied and the worker thread is started.
Click ==
    /\ start_btn = "normal"
    /\ runs < MaxRuns
    /\ start_btn' = StartState
    /\ log_area' = <<>>
    /\ workers' = workers + 1
    /\ runs' = runs + 1
    /\ pc' = "check"
    /\ all_files' = <<>>
    /\ idx' = 1
    /\ all_data_frames' = <<>>
    /\ accepted' = <<>>
    /\ combined' = EmptyTable
    /\ final_df' = EmptyTable
    /\ log' = <<>>
    /\ msgs' = <<>>
    /\ reads' = <<>>
    /\ prev' = Left(log, msgs, final_df, output)
    /\ UNCHANGED <<settings, folder, lookup_file, output, after_q, uvars>>

\* Lines 449-468 of run_processing: the settings are checked and either the
\* error is reported or process_files is called.
RunChecks ==
    /\ pc = "check"
    /\ LET missing_fields == MissingFields(settings) IN
       IF missing_fields # <<>>
       THEN /\ log' = Append(log, Line("missing_settings", "", missing_fields, 0))
            /\ msgs' = Append(msgs, Box("error", "Missing Settings"))
            /\ pc' = "done"
       ELSE /\ pc' = "start"
            /\ UNCHANGED <<log, msgs>>
    /\ log_area' = log_area \o Inserted(NewLines(log, log'))
    /\ UNCHANGED <<settings, folder, lookup_file, all_files, idx, all_data_frames,
                   accepted, combined, final_df, output, reads, avars, uvars>>

\* Lines 472-473: the finally clause schedules the callback that enables
\* the button, and the thread ends.
Finally ==
    /\ pc = "done"
    /\ workers > 0
    /\ after_q' = ScheduleCallback(after_q)
    /\ workers' = workers - 1
    /\ pc' = "idle"
    /\ UNCHANGED <<settings, folder, lookup_file, all_files, idx, all_data_frames,
                   accepted, combined, final_df, log, msgs, output, reads, start_btn,
                   runs, log_area, prev, uvars>>

\* The main loop runs a callback scheduled at line 473.
EnableStart ==
    /\ after_q > 0
    /\ start_btn' = "normal"
    /\ after_q' = after_q - 1
    /\ UNCHANGED <<settings, folder, lookup_file, pc, all_files, idx, all_data_frames,
                   accepted, combined, final_df, log, msgs, output, reads, workers,
                   runs, log_area, prev, uvars>>

\* The steps of the worker thread.
WorkerStep ==
    RunChecks \/ Discover \/ ProcessFile \/ Combine \/ Merge \/ Save \/ Finally

AppNext ==
    \/ Click
    \/ RunChecks
    \/ Discover
    \/ ProcessFile
    \/ Combine
    \/ Merge
    \/ Save
    \/ Finally
    \/ EnableStart

\* Settings with some fields left blank ("" or whitespace).
BlankableFields ==
    {"input_folder", "header_row", "txt_delimiter", "lookup_file_path",
     "lookup_txt_delimiter"}

AppSettings ==
    {[DefaultSettings EXCEPT
         !.text = [f \in SettingFields |->
                      IF f \in blank THEN Entry(f = "input_folder", "")
                      ELSE Entry(FALSE, "x")],
         !.columns_to_extract = Listed(<<>>),
         !.enable_txt_processing = txt,
         !.enable_merge = merge,
         !.enable_lookup_txt = ltxt] :
         blank \in SUBSET BlankableFields, txt \in BOOLEAN, merge \in BOOLEAN,
         ltxt \in BOOLEAN}

\* No file; a file that cannot be read; a file with two rows; two files
\* whose frames pd.concat cannot combine.
AppFolders ==
    {<<>>,
     <<FileOf(1, "xlsx", "error", <<>>)>>,
     <<FileOf(1, "xlsx", "ok", GridOf(1, Names(<<"SKU", "Price">>), 3))>>,
     <<FileOf(1, "xlsx", "ok", GridOf(1, Names(<<"SKU", "SKU", "SKU.1">>), 2)),
       FileOf(2, "xlsx", "ok", GridOf(2, Names(<<"SKU", "Price">>), 2))>>}

\* The application after construction: no run yet, the button enabled.
AppCreated ==
    /\ pc = "idle"
    /\ all_files = <<>>
    /\ idx = 1
    /\ all_data_frames = <<>>
    /\ accepted = <<>>
    /\ combined = EmptyTable
    /\ final_df = EmptyTable
    /\ log = <<>>
    /\ msgs = <<>>
    /\ output = NoOutput
    /\ reads = <<>>
    /\ start_btn = "normal"
    /\ workers = 0
    /\ after_q = 0
    /\ runs = 0
    /\ log_area = <<>>
    /\ prev = NoRun
    /\ columns = <<>>
    /\ new_columns = <<>>
    /\ upc = "idle"

AppInit ==
    /\ settings \in AppSettings
    /\ folder \in AppFolders
    /\ lookup_file \in {SimpleLookup, NoLookup}
    /\ AppCreated

SpecApp == AppInit /\ [][AppNext]_vars

\* Settings complete or without the input folder, the merge on or off.
LiveSettings ==
    {st \in AppSettings :
        /\ \A f \in SettingFields : st.text[f].text = "" => f = "input_folder"
        /\ ~st.enable_txt_processing
        /\ ~st.enable_lookup_txt}

LiveInit ==
    /\ settings \in LiveSettings
    /\ folder \in AppFolders
    /\ lookup_file \in {SimpleLookup, NoLookup}
    /\ AppCreated

\* The operating system runs a started thread and the main loop runs the
\* callbacks scheduled for it; nothing makes the user press Start.
SpecAppLive ==
    LiveInit /\ [][AppNext]_vars /\ WF_vars(WorkerStep) /\ WF_vars(EnableStart)

(***************************************************************************)
(* Claims about _make_columns_unique (checked under SpecUnique).           *)
(***************************************************************************)
\* Number of positions j < i of the input whose text equals that of position i.
EarlierSame(cols, i) == Cardinality({j \in 1..(i - 1) : Str(cols[j]) = Str(cols[i])})

\* C2: for every header row the names returned by _make_columns_unique are
\* pairwise distinct.
C2_NamesPairwiseDistinct ==
    upc = "ret" =>
        \A i, j \in 1..Len(new_columns) : i # j => new_columns[i] # new_columns[j]

\* C3: the result has the length of the input; the first occurrence of a name
\* (coerced to text) is kept unchanged and its k-th later occurrence becomes
\* "<name>.<k>".
C3_SuffixByOccurrence ==
    upc = "ret" =>
        /\ Len(new_columns) = Len(columns)
        /\ \A i \in 1..Len(columns) :
              LET k == EarlierSame(columns, i) IN
              new_columns[i] = IF k = 0 THEN Str(columns[i])
                               ELSE Str(columns[i]) \o "." \o ToString(k)

\* C3 witness: the call has returned for [SKU, Price, SKU, SKU].
C3_Witness ==
    /\ upc = "ret"
    /\ columns = <<Txt("SKU"), Txt("Price"), Txt("SKU"), Txt("SKU")>>
    /\ new_columns = <<"SKU", "Price", "SKU.1", "SKU.2">>

(***************************************************************************)
(* Claims about the file loop and the concatenation (checked under Spec).  *)
(***************************************************************************)
Logged(ev, file) == \E i \in 1..Len(log) : log[i].ev = ev /\ log[i].file = file

LoggedEv(ev) == \E i \in 1..Len(log) : log[i].ev = ev

Requested == ParseColumnList(settings.columns_to_extract)

\* The file cannot be read: the read raises, or the latin-1 retry does.
Unreadable(f) == f.read \notin {"ok", "utf8_error"}

\* The grid is too short for the data-start offset or has no header row.
TooShort(f) ==
    \/ Len(f.grid) < settings.data_start_row - 1
    \/ Len(f.grid) < settings.header_row

\* The labels of the file's table: its header row made unique.
LabelsOf(f) == make_columns_unique(f.grid[settings.header_row])

\* The selector rejects the file: names are requested and none is a label.
Rejected(f) ==
    /\ Requested # <<>>
    /\ \A c \in Range(Requested) : c \notin Range(LabelsOf(f))

\* The file's read, normalization or selection raises or is rejected.
Failing(f) == Unreadable(f) \/ TooShort(f) \/ Rejected(f)

\* Number of files the loop has gone through.
Processed == IF pc = "start" THEN 0 ELSE idx - 1

\* C4: every file's failure is logged and leaves no table, every later file
\* is still processed, the frames of the files that do not fail are the
\* ones accumulated, and the loop ends only after the last file.
C4_FileIsolation ==
    pc \notin {"idle", "start"} =>
        /\ pc # "loop" => Processed = Len(all_files)
        /\ accepted = SelectSeq([i \in 1..Processed |-> i],
                                LAMBDA i : ~Failing(all_files[i]))
        /\ Len(all_data_frames) = Len(accepted)
        /\ \A j \in 1..Len(accepted) :
              all_data_frames[j] =
                  ProcessOne(all_files[accepted[j]], accepted[j], Len(all_files), settings).frame
        /\ \A i \in 1..Processed :
              /\ Logged("processing", all_files[i].name)
              /\ Failing(all_files[i]) =>
                    \/ Logged("file_error", all_files[i].name)
                    \/ Logged("warn_rows", all_files[i].name)
                    \/ Logged("warn_none_found", all_files[i].name)

\* C4 witness: the loop is over for two files of which the first could not
\* be read and the second gave the only frame.
C4_Witness ==
    /\ pc = "merge"
    /\ Len(all_files) = 2
    /\ all_files[1].read = "error"
    /\ accepted = <<2>>
    /\ Len(all_data_frames[1].rows) = 2

\* The cells a row holds under the label c, left to right.
CellsUnder(t, row, c) ==
    LET pos == PositionsOf(t.cols, c) IN [j \in 1..Len(pos) |-> row[pos[j]]]

RECURSIVE RowsBefore(_, _)
RowsBefore(frames, k) ==
    IF k <= 1 THEN 0 ELSE RowsBefore(frames, k - 1) + Len(frames[k - 1].rows)

\* C5: whenever the concatenation yields the combined table, its labels are
\* the union of the frames' labels (source_file among them), its row count
\* is the sum of theirs, and every row holds its own frame's cells under
\* that frame's labels and an empty cell under every other label.
C5_UnionConcat ==
    LoggedEv("combined_rows") =>
        /\ Range(combined.cols) =
              UNION {Range(all_data_frames[k].cols) : k \in 1..Len(all_data_frames)}
        /\ "source_file" \in Range(combined.cols)
        /\ Len(combined.rows) = RowsBefore(all_data_frames, Len(all_data_frames) + 1)
        /\ \A k \in 1..Len(all_data_frames) :
              \A r \in 1..Len(all_data_frames[k].rows) :
                 LET row == combined.rows[RowsBefore(all_data_frames, k) + r]
                     own == all_data_frames[k]
                 IN  \A c \in Range(combined.cols) :
                        IF c \in Range(own.cols)
                        THEN CellsUnder(combined, row, c) = CellsUnder(own, own.rows[r], c)
                        ELSE CellsUnder(combined, row, c) = <<NaN>>

\* C5 witness: frames {SKU, Price} and {SKU, ASIN} of two rows each gave
\* four rows under SKU, Price, source_file, ASIN with the empty cells.
C5_Witness ==
    /\ pc = "merge"
    /\ Len(all_data_frames) = 2
    /\ all_data_frames[1].cols = <<"SKU", "Price", "source_file">>
    /\ all_data_frames[2].cols = <<"SKU", "ASIN", "source_file">>
    /\ combined.cols = <<"SKU", "Price", "source_file", "ASIN">>
    /\ Len(combined.rows) = 4
    /\ combined.rows[1] = <<Txt("v111"), Txt("v112"), Txt("f1.xlsx"), NaN>>
    /\ combined.rows[4] = <<Txt("v221"), NaN, Txt("f2.xlsx"), Txt("v222")>>

\* The requested names the file's table has / lacks, in requested order.
Present(f) == SelectSeq(Requested, LAMBDA c : c \in Range(LabelsOf(f)))
Absent(f) == SelectSeq(Requested, LAMBDA c : c \notin Range(LabelsOf(f)))

\* C9: a readable file with at least one requested name present is not
\* rejected, its frame has exactly the present requested columns in
\* requested order (before source_file), and the warning names exactly
\* the absent requested names (none when nothing is absent).
C9_SelectorNarrowing ==
    \A i \in 1..Processed :
        LET f == all_files[i] IN
        (~Unreadable(f) /\ ~TooShort(f) /\ Requested # <<>> /\ Present(f) # <<>>) =>
            /\ \E j \in 1..Len(accepted) :
                  /\ accepted[j] = i
                  /\ all_data_frames[j].cols = Append(Present(f), "source_file")
            /\ Absent(f) # <<>> =>
                  \E n \in 1..Len(log) : log[n] = Line("warn_missing", f.name, Absent(f), 0)
            /\ Absent(f) = <<>> => ~Logged("warn_missing", f.name)

\* C10: a readable file none of whose labels is requested is skipped with
\* the warning, adds no frame, none of its cells reaches the combined
\* table, and the loop goes on to the next file.
C10_SelectorRejection ==
    \A i \in 1..Processed :
        LET f == all_files[i] IN
        (~Unreadable(f) /\ ~TooShort(f) /\ Rejected(f)) =>
            /\ Logged("warn_none_found", f.name)
            /\ \A j \in 1..Len(accepted) : accepted[j] # i
            /\ Len(all_data_frames) <= Processed - 1
            /\ \A r \in 1..Len(combined.rows) :
                  \A c \in 1..Len(combined.rows[r]) :
                     /\ combined.rows[r][c] # Txt(f.name)
                     /\ \A gr \in 1..Len(f.grid) :
                           combined.rows[r][c] \notin Range(f.grid[gr])
            /\ (i < Len(all_files) /\ pc # "loop") =>
                  Logged("processing", all_files[i + 1].name)

\* C10 witness: the first of two files has only ASIN while SKU is
\* requested; the second gave the combined table.
C10_Witness ==
    /\ pc = "merge"
    /\ Requested = <<"SKU">>
    /\ Len(all_files) = 2
    /\ Len(all_files[1].grid) = 3
    /\ LabelsOf(all_files[1]) = <<"ASIN">>
    /\ accepted = <<2>>
    /\ Len(combined.rows) = 2

(***************************************************************************)
(* Claims about the merge (checked under SpecMerge).                       *)
(***************************************************************************)
HasBox(title) == \E i \in 1..Len(msgs) : msgs[i].title = title

\* C1: once a step of the merge has failed, the output-write step is not
\* executed: no output file is written and no success message is shown.
C1_NoWriteAfterMergeError ==
    HasBox("Merge Error") => (output = NoOutput /\ ~HasBox("Done"))

SourceKey == settings.source_key_column
LookupKey == settings.lookup_key_column
ColsAdded == ParseColumnList(settings.lookup_columns_to_add)

\* The lookup table: the lookup file's grid normalized.
LookupTable ==
    NormalizeFrame(lookup_file.grid, settings.lookup_header_row - 1,
                   settings.lookup_data_start_row - 1)

\* The lookup rows whose key, as text, equals the key of combined row i.
Matches(i) ==
    LET kl == PositionsOf(combined.cols, SourceKey)[1]
        kr == PositionsOf(LookupTable.cols, LookupKey)[1]
    IN  {m \in 1..Len(LookupTable.rows) :
            Str(combined.rows[i][kl]) = Str(LookupTable.rows[m][kr])}

Copies(i) == IF Matches(i) = {} THEN 1 ELSE Cardinality(Matches(i))

RECURSIVE CopiesBefore(_)
CopiesBefore(i) == IF i <= 1 THEN 0 ELSE CopiesBefore(i - 1) + Copies(i - 1)

\* The h-th smallest element of a set of numbers.
RECURSIVE Nth(_, _)
Nth(S, h) ==
    LET least == CHOOSE x \in S : \A y \in S : x <= y IN
    IF h = 1 THEN least ELSE Nth(S \ {least}, h - 1)

\* The label under which the result carries the lookup column c.
AddedLabel(c) == IF c \in Range(combined.cols) THEN c \o "_y" ELSE c

\* C6: after a successful merge every combined row is in the result, in the
\* original order, once per lookup row whose text key equals its text
\* key, each time with that lookup row's cells in the added columns, or
\* once with empty cells in the added columns when no lookup row matches.
C6_LeftJoinRows ==
    LoggedEv("merge_ok") =>
        /\ Len(final_df.rows) = CopiesBefore(Len(combined.rows) + 1)
        /\ \A i \in 1..Len(combined.rows) :
              \A h \in 1..Copies(i) :
                 LET row == final_df.rows[CopiesBefore(i) + h] IN
                 /\ \A j \in 1..Len(combined.cols) :
                       row[j] = IF combined.cols[j] = SourceKey
                                THEN Txt(Str(combined.rows[i][j]))
                                ELSE combined.rows[i][j]
                 /\ \A c \in Range(ColsAdded) \ {LookupKey} :
                       LET at == PositionsOf(final_df.cols, AddedLabel(c))[1]
                           from == PositionsOf(LookupTable.cols, c)[1]
                       IN  row[at] = IF Matches(i) = {} THEN NaN
                                     ELSE LookupTable.rows[Nth(Matches(i), h)][from]

\* C6 witness: of two combined rows the first, with the number 7 as key,
\* matched two lookup rows keyed by the text "7" and the second, with an
\* empty key, matched none.
C6_Witness ==
    /\ LoggedEv("merge_ok")
    /\ Len(combined.rows) = 2
    /\ combined.rows[1][1] = Num(7)
    /\ combined.rows[2][1] = NaN
    /\ Cardinality(Matches(1)) = 2
    /\ LookupTable.rows[1][1] = Txt("7")
    /\ Matches(2) = {}
    /\ Len(final_df.rows) = 3

\* C7: after a successful merge with differently named keys the result has
\* no column labelled with the lookup key when that name was not asked
\* for, and has one when it was.
C7_LookupKeyCleanup ==
    (LoggedEv("merge_ok") /\ SourceKey # LookupKey) =>
        (LookupKey \in Range(final_df.cols) <=> LookupKey \in Range(ColsAdded))

\* C8: after a successful merge with equally named keys the key label
\* occurs exactly once in the result.
C8_SameKeyOnce ==
    (LoggedEv("merge_ok") /\ SourceKey = LookupKey) =>
        Len(PositionsOf(final_df.cols, LookupKey)) = 1

\* C8 witness: a merge on SKU = SKU with SKU also among the columns to
\* add succeeded on a combined table with rows.
C8_Witness ==
    /\ LoggedEv("merge_ok")
    /\ SourceKey = "SKU"
    /\ LookupKey = "SKU"
    /\ ColsAdded = <<"SKU", "ASIN">>
    /\ Len(final_df.rows) > 0
    /\ final_df.cols = <<"SKU", "Price", "source_file", "ASIN">>

(***************************************************************************)
(* Claims about the selector, the row slicing and the end of a run without *)
(* data.                                                                   *)
(***************************************************************************)
\* The columns_to_extract setting has no name: every entry between its
\* commas is empty or whitespace.
AllBlank ==
    \A i \in 1..Len(settings.columns_to_extract) :
        settings.columns_to_extract[i].text = ""

\* The labels with source_file set: in place when it is a label, appended
\* otherwise.
WithSourceFile(labels) ==
    IF "source_file" \in Range(labels) THEN labels ELSE Append(labels, "source_file")

\* C11: when the requested list is empty (blank, or only commas and
\* whitespace) every readable file is accepted with all the columns of its
\* normalized table in their order and all its data rows, and no
\* missing-column or none-found warning is logged for any file.
C11_EmptyListKeepsAll ==
    AllBlank =>
        \A i \in 1..Processed :
            LET f == all_files[i] IN
            /\ ~Logged("warn_missing", f.name)
            /\ ~Logged("warn_none_found", f.name)
            /\ (~Unreadable(f) /\ ~TooShort(f)) =>
                  \E j \in 1..Len(accepted) :
                     /\ accepted[j] = i
                     /\ all_data_frames[j].cols = WithSourceFile(LabelsOf(f))
                     /\ Len(all_data_frames[j].rows) =
                            Len(f.grid) - (settings.data_start_row - 1)
                     /\ \A r \in 1..Len(all_data_frames[j].rows) :
                           \A c \in 1..Len(f.grid[1]) :
                              all_data_frames[j].rows[r][c] =
                                  f.grid[settings.data_start_row - 1 + r][c]

\* C11 witness: the setting is ", " and a file with the labels SKU, SKU.1,
\* SKU.1 and two data rows was accepted with all of them.
C11_Witness ==
    /\ settings.columns_to_extract = <<Entry(FALSE, ""), Entry(TRUE, "")>>
    /\ pc = "merge"
    /\ accepted = <<1>>
    /\ all_data_frames[1].cols = <<"SKU", "SKU.1", "SKU.1", "source_file">>
    /\ Len(all_data_frames[1].rows) = 2

\* C12: a readable grid with fewer rows than data_start_row - 1 is skipped
\* with the not-enough-rows warning and gives no table; a readable grid with
\* at least data_start_row rows, when 1 <= header_row <= data_start_row,
\* gives the table whose labels come from grid row header_row and whose
\* body is the grid rows from data_start_row to the end, that is
\* Len(grid) - (data_start_row - 1) rows.
C12_RowSlicing ==
    \A i \in 1..Processed :
        LET f == all_files[i]
            hr == settings.header_row
            dsr == settings.data_start_row
        IN  /\ (~Unreadable(f) /\ Len(f.grid) < dsr - 1) =>
                  /\ Logged("warn_rows", f.name)
                  /\ \A j \in 1..Len(accepted) : accepted[j] # i
            /\ (~Unreadable(f) /\ Len(f.grid) >= dsr /\ hr <= dsr /\ AllBlank) =>
                  \E j \in 1..Len(accepted) :
                     /\ accepted[j] = i
                     /\ ~Logged("warn_rows", f.name)
                     /\ all_data_frames[j].cols =
                            WithSourceFile(make_columns_unique(f.grid[hr]))
                     /\ Len(all_data_frames[j].rows) = Len(f.grid) - (dsr - 1)
                     /\ \A r \in 1..Len(all_data_frames[j].rows) :
                           SubSeq(all_data_frames[j].rows[r], 1, Len(f.grid[hr])) =
                               f.grid[dsr - 1 + r]

\* C12 witness: with header_row 2 and data_start_row 3 a grid of one row was
\* skipped and a grid of three rows gave its second row as labels and its
\* third row as the only data row.
C12_Witness ==
    /\ pc = "merge"
    /\ settings.header_row = 2
    /\ settings.data_start_row = 3
    /\ Len(all_files) = 2
    /\ Len(all_files[1].grid) = 1
    /\ Logged("warn_rows", all_files[1].name)
    /\ accepted = <<2>>
    /\ all_data_frames[1] =
          Table(<<"v211", "v212", "source_file">>,
                <<<<Txt("v221"), Txt("v222"), Txt("f2.xlsx")>>>>)

\* The files of the folder that the patterns of the run match.
Matching ==
    {i \in 1..Len(folder) :
        \/ folder[i].ext \in {"xlsx", "xlsm", "csv"}
        \/ folder[i].ext = "txt" /\ settings.enable_txt_processing}

\* The run went neither through the lookup stage nor through the write.
NoMergeNoWrite ==
    /\ output = NoOutput
    /\ ~LoggedEv("combining")
    /\ ~LoggedEv("merge_start")
    /\ ~LoggedEv("done")
    /\ ~LoggedEv("save_error")
    /\ ~HasBox("Done")

\* C13: the output is written only after at least one per-file table was
\* accumulated; a run with no matching file ends on the no-files message and
\* a run whose files were all skipped or failed ends on the no-data message,
\* both without the lookup stage and without a write.
C13_NoDataNoOutput ==
    /\ output.written => accepted # <<>>
    /\ (pc = "done" /\ Matching = {}) =>
          /\ log[Len(log)].ev = "no_files"
          /\ NoMergeNoWrite
    /\ (pc = "done" /\ Matching # {} /\ accepted = <<>>) =>
          /\ Processed = Cardinality(Matching)
          /\ log[Len(log)].ev = "no_data"
          /\ NoMergeNoWrite

\* C13 witness: with the merge enabled, a run over two files, one that no
\* encoding reads and one without the requested name, ended without data.
C13_Witness ==
    /\ pc = "done"
    /\ settings.enable_merge
    /\ Len(all_files) = 2
    /\ all_files[1].read = "utf8_latin1_error"
    /\ Logged("warn_none_found", all_files[2].name)
    /\ LoggedEv("no_data")
    /\ output = NoOutput

(***************************************************************************)
(* Claims about the encoding fallback and the source_file column.          *)
(***************************************************************************)
\* The encodings of the reads of the file, in order.
EncodingsOf(f) ==
    LET mine == SelectSeq(reads, LAMBDA r : r.file = f.name)
    IN  [k \in 1..Len(mine) |-> mine[k].encoding]

\* Number of log lines of the event about the file.
LineCount(ev, f) == Cardinality({n \in 1..Len(log) : log[n].ev = ev /\ log[n].file = f.name})

\* C19: a .csv or .txt file is read as UTF-8 first; when that decoding
\* fails there is exactly one warning and exactly one latin-1 read; when
\* the latin-1 read succeeds the file's rows are in its frame; when it
\* fails the file gives no frame, one error is logged and the next file is
\* processed.  Without a decoding error there is no warning and no retry.
C19_EncodingFallback ==
    \A i \in 1..Processed :
        LET f == all_files[i] IN
        f.ext \in {"csv", "txt"} =>
            /\ f.read \in {"ok", "error"} =>
                  /\ EncodingsOf(f) = <<"utf-8">>
                  /\ LineCount("warn_utf8", f) = 0
            /\ f.read \in {"utf8_error", "utf8_latin1_error"} =>
                  /\ EncodingsOf(f) = <<"utf-8", "latin-1">>
                  /\ LineCount("warn_utf8", f) = 1
            /\ (f.read = "utf8_error" /\ ~TooShort(f) /\ ~Rejected(f)) =>
                  \E j \in 1..Len(accepted) :
                     /\ accepted[j] = i
                     /\ LineCount("file_error", f) = 0
                     /\ Len(all_data_frames[j].rows) =
                            Len(f.grid) - (settings.data_start_row - 1)
                     /\ \A r \in 1..Len(all_data_frames[j].rows) :
                           SubSeq(all_data_frames[j].rows[r], 1, Len(f.grid[1])) =
                               f.grid[settings.data_start_row - 1 + r]
            /\ f.read = "utf8_latin1_error" =>
                  /\ \A j \in 1..Len(accepted) : accepted[j] # i
                  /\ LineCount("file_error", f) = 1
                  /\ (i < Len(all_files) /\ pc # "loop") =>
                        Logged("processing", all_files[i + 1].name)

\* C19 witness: the first file failed in both encodings, the second, a txt
\* file, was read on the latin-1 retry and gave the only frame.
C19_Witness ==
    /\ pc = "merge"
    /\ Len(all_files) = 2
    /\ reads = <<[file |-> "f1.csv", encoding |-> "utf-8"],
                 [file |-> "f1.csv", encoding |-> "latin-1"],
                 [file |-> "f2.txt", encoding |-> "utf-8"],
                 [file |-> "f2.txt", encoding |-> "latin-1"]>>
    /\ all_files[1].read = "utf8_latin1_error"
    /\ accepted = <<2>>
    /\ all_data_frames[1].rows = <<<<Txt("v211"), Txt("v212"), Txt("f2.txt")>>>>

\* C20: every accumulated frame and the combined table have a source_file
\* column, and every row holds under it the base name of the file the row
\* came from and nothing else, whatever the requested list and also when
\* the file's header has a source_file column of its own.
C20_Provenance ==
    /\ \A j \in 1..Len(all_data_frames) :
          /\ "source_file" \in Range(all_data_frames[j].cols)
          /\ \A r \in 1..Len(all_data_frames[j].rows) :
                Range(CellsUnder(all_data_frames[j], all_data_frames[j].rows[r],
                                 "source_file"))
                    = {Txt(all_files[accepted[j]].name)}
    /\ LoggedEv("combined_rows") =>
          /\ "source_file" \in Range(combined.cols)
          /\ \A j \in 1..Len(all_data_frames) :
                \A r \in 1..Len(all_data_frames[j].rows) :
                   Range(CellsUnder(combined,
                                    combined.rows[RowsBefore(all_data_frames, j) + r],
                                    "source_file"))
                       = {Txt(all_files[accepted[j]].name)}

\* C20 witness: two files whose headers have a source_file column, one of
\* them requested away, gave three rows that name their own file.
C20_Witness ==
    /\ pc = "merge"
    /\ Requested = <<"SKU", "source_file">>
    /\ Len(all_files) = 2
    /\ LabelsOf(all_files[1]) = <<"source_file", "SKU">>
    /\ LabelsOf(all_files[2]) = <<"SKU", "source_file">>
    /\ combined.cols = <<"SKU", "source_file">>
    /\ combined.rows = <<<<Txt("v112"), Txt("f1.xlsx")>>,
                         <<Txt("v122"), Txt("f1.xlsx")>>,
                         <<Txt("v211"), Txt("f2.xlsx")>>>>

(***************************************************************************)
(* Claims about the application (checked under SpecApp).                   *)
(***************************************************************************)
\* The field of the settings is blank.
IsBlank(f) == settings.text[f].text = ""

\* The fields a run needs, as the claim lists them: six always, the txt
\* delimiter with the txt processing, six more with the merge, and the
\* lookup txt delimiter with the merge and the lookup txt option.
Needed ==
    <<"input_folder", "output_folder", "sheet_name", "header_row", "data_start_row",
      "output_filename", "txt_delimiter", "lookup_file_path", "lookup_header_row",
      "lookup_data_start_row", "source_key_column", "lookup_key_column",
      "lookup_columns_to_add", "lookup_txt_delimiter">>

IsNeeded(f) ==
    \/ f \in {"input_folder", "output_folder", "sheet_name", "header_row",
               "data_start_row", "output_filename"}
    \/ f = "txt_delimiter" /\ settings.enable_txt_processing
    \/ /\ f \in {"lookup_file_path", "lookup_header_row", "lookup_data_start_row",
                  "source_key_column", "lookup_key_column", "lookup_columns_to_add"}
       /\ settings.enable_merge
    \/ f = "lookup_txt_delimiter" /\ settings.enable_merge /\ settings.enable_lookup_txt

BlankNeeded == SelectSeq(Needed, LAMBDA f : IsNeeded(f) /\ IsBlank(f))

\* C14: once run_processing has checked the settings, if a required field
\* is blank the log holds only the error that names exactly the blank
\* required fields, the Missing Settings box is the only one shown and
\* process_files has not been called (no file found, read or written);
\* if none is blank, process_files has been called.
C14_RunPreconditions ==
    (runs > 0 /\ pc # "check") =>
        IF BlankNeeded # <<>>
        THEN /\ log = <<Line("missing_settings", "", BlankNeeded, 0)>>
             /\ msgs = <<Box("error", "Missing Settings")>>
             /\ pc \in {"done", "idle"}
             /\ all_files = <<>>
             /\ reads = <<>>
             /\ output = NoOutput
        ELSE /\ ~LoggedEv("missing_settings")
             /\ ~HasBox("Missing Settings")
             /\ pc # "start" => LoggedEv("start")

\* C14 witness: with the merge and the lookup txt option on, and the input
\* folder, the lookup path and both delimiters blank, the run ended on the
\* error naming the three required ones.
C14_Witness ==
    /\ pc = "done"
    /\ settings.enable_merge
    /\ settings.enable_lookup_txt
    /\ ~settings.enable_txt_processing
    /\ IsBlank("txt_delimiter")
    /\ log = <<Line("missing_settings", "",
                    <<"input_folder", "lookup_file_path", "lookup_txt_delimiter">>, 0)>>

\* C15: every started run ends, and after it the Start button is enabled
\* again, whichever way the run ends.
C15_RunsTerminate ==
    \A r \in 1..MaxRuns :
        (runs = r /\ workers > 0) ~> (runs = r /\ workers = 0 /\ start_btn = "normal")

\* C15 witness: a run that showed the merge error and then the save error
\* has ended and the button is enabled.
C15_Witness ==
    /\ runs = 1
    /\ workers = 0
    /\ start_btn = "normal"
    /\ msgs = <<Box("error", "Merge Error"), Box("error", "Save Error")>>

\* C16: at most one worker thread lives at a time; while one lives the
\* Start button is disabled and no callback that would enable it is
\* pending; the button is enabled only when no run is active.
C16_OneRunInFlight ==
    /\ workers <= 1
    /\ workers = 1 => (start_btn = "disabled" /\ after_q = 0)
    /\ start_btn = "normal" => (workers = 0 /\ pc = "idle")
    /\ pc # "idle" <=> workers = 1

\* C16 witness: a second run is in its file loop after the first one ended.
C16_Witness ==
    /\ runs = 2
    /\ workers = 1
    /\ pc = "loop"
    /\ start_btn = "disabled"

\* The log lines that tell how a run ended.
TerminalEvents ==
    {"missing_settings", "no_files", "no_data", "critical_error", "merge_error",
     "save_error", "done"}

TerminalLines == {n \in 1..Len(log) : log[n].ev \in TerminalEvents}

\* The run has ended without reporting a merge error.
EndedWithoutMergeError == runs > 0 /\ workers = 0 /\ ~LoggedEv("merge_error")

\* C17: a run that has ended has told its outcome exactly once (one
\* terminal line in the log, at most one message box), and has not told
\* success after an error.
C17_OneOutcomeSignal ==
    (runs > 0 /\ workers = 0) =>
        /\ Cardinality(TerminalLines) = 1
        /\ Len(msgs) <= 1
        /\ LoggedEv("done") => \A n \in TerminalLines : log[n].ev = "done"
        /\ HasBox("Done") => \A i \in 1..Len(msgs) : msgs[i].kind = "info"

\* The same for the runs that report no merge error.
C17_OutsideMergeError ==
    EndedWithoutMergeError =>
        /\ Cardinality(TerminalLines) = 1
        /\ Len(msgs) <= 1
        /\ LoggedEv("done") => \A n \in TerminalLines : log[n].ev = "done"
        /\ HasBox("Done") => \A i \in 1..Len(msgs) : msgs[i].kind = "info"

\* C18: the lines of the log widget are the lines emitted, in emission
\* order, and each was inserted by the UI thread (handed over by a queue or
\* a dispatch to the main loop), never by the worker thread.
C18_LogHandOff ==
    /\ Len(log_area) = Len(log)
    /\ \A i \in 1..Len(log_area) :
          /\ log_area[i].line = log[i]
          /\ log_area[i].thread = "ui"

\* The order alone: the widget holds the emitted lines in emission order.
C18_EmissionOrder ==
    /\ Len(log_area) = Len(log)
    /\ \A i \in 1..Len(log_area) : log_area[i].line = log[i]

(***************************************************************************)
(* Claims about the order of the files and of the rows.                    *)
(***************************************************************************)
\* The lines that announce a file, in the order they were logged.
ProcessingLines == SelectSeq(log, LAMBDA l : l.ev = "processing")

\* C21: the files are announced one after another in discovery order, each
\* exactly once; the accepted files are in that order; and in the combined
\* table the rows of the k-th accepted file come after all rows of the
\* accepted files before it, its r-th row holding cells of the r-th data
\* row of that file (or its name, or nothing) and no cell of another row.
C21_DiscoveryOrder ==
    pc \notin {"idle", "check", "start"} =>
        /\ ProcessingLines =
              [i \in 1..Processed |-> Line("processing", all_files[i].name, <<>>, i)]
        /\ pc # "loop" => Processed = Len(all_files)
        /\ \A j \in 1..(Len(accepted) - 1) : accepted[j] < accepted[j + 1]
        /\ LoggedEv("combined_rows") =>
              /\ Len(combined.rows) = RowsBefore(all_data_frames, Len(all_data_frames) + 1)
              /\ \A k \in 1..Len(all_data_frames) :
                    LET f == all_files[accepted[k]] IN
                    /\ Len(all_data_frames[k].rows) =
                           Len(f.grid) - (settings.data_start_row - 1)
                    /\ \A r \in 1..Len(all_data_frames[k].rows) :
                          LET row == combined.rows[RowsBefore(all_data_frames, k) + r] IN
                          /\ Txt(f.name) \in Range(row)
                          /\ \A c \in 1..Len(row) :
                                \/ row[c] \in {NaN, Txt(f.name)}
                                \/ row[c] \in Range(f.grid[settings.data_start_row - 1 + r])

\* C21 witness: of two files of two data rows each, both accepted, the
\* combined table has the rows of the first, in their order, before the
\* rows of the second.
C21_Witness ==
    /\ pc = "merge"
    /\ accepted = <<1, 2>>
    /\ Requested = <<"SKU">>
    /\ combined.rows = <<<<Txt("v111"), Txt("f1.xlsx")>>,
                         <<Txt("v121"), Txt("f1.xlsx")>>,
                         <<Txt("v211"), Txt("f2.xlsx")>>,
                         <<Txt("v221"), Txt("f2.xlsx")>>>>

(***************************************************************************)
(* Claims about what the merge does to the combined table (checked under   *)
(* SpecMerge).                                                             *)
(***************************************************************************)
\* C22: after a successful merge every column of the combined table is in
\* the result under its own name, and every result row that stems from a
\* combined row holds that row's cell under it.
C22_EnrichmentFrame ==
    LoggedEv("merge_ok") =>
        \A j \in 1..Len(combined.cols) :
            \E p \in 1..Len(final_df.cols) :
                /\ final_df.cols[p] = combined.cols[j]
                /\ \A i \in 1..Len(combined.rows) :
                      \A h \in 1..Copies(i) :
                         final_df.rows[CopiesBefore(i) + h][p] = combined.rows[i][j]

\* What does hold for a combined table with rows: every column keeps its
\* place, its name up to the suffix "_x", and its cells up to the text
\* form of the source-key column.
C22_UpToSuffixAndKeyText ==
    (LoggedEv("merge_ok") /\ Len(combined.rows) > 0) =>
        \A j \in 1..Len(combined.cols) :
            /\ final_df.cols[j] \in {combined.cols[j], combined.cols[j] \o "_x"}
            /\ \A i \in 1..Len(combined.rows) :
                  \A h \in 1..Copies(i) :
                     final_df.rows[CopiesBefore(i) + h][j] \in
                         {combined.rows[i][j], Txt(Str(combined.rows[i][j]))}

\* The same as C22 when no cell of the source-key column changes under
\* str() and no label of the lookup subset is a label of the combined table.
C22_WithoutCastAndOverlap ==
    (/\ LoggedEv("merge_ok")
     /\ Len(combined.rows) > 0
     /\ \A i \in 1..Len(combined.rows) :
           combined.rows[i][PositionsOf(combined.cols, SourceKey)[1]].k = "txt"
     /\ \A c \in Range(ColumnsForSubset(LookupKey, ColsAdded)) :
           c \in Range(combined.cols) => (c = SourceKey /\ c = LookupKey))
    => C22_EnrichmentFrame

\* The position of the source-key column in the combined table.
KeyAt == PositionsOf(combined.cols, SourceKey)[1]

\* The combined rows whose source-key cell is empty.
EmptyKeyRows == {i \in 1..Len(combined.rows) : combined.rows[i][KeyAt] = NaN}

\* The result rows that stem from a combined row with an empty key: their
\* key cell is the text form of the empty cell (no key cell of the inputs
\* is that text).
FromEmptyKey == {n \in 1..Len(final_df.rows) : final_df.rows[n][KeyAt] = AsTypeStr(NaN)}

\* C24: after a successful merge a combined row with an empty source-key
\* cell is not multiplied (the result has as many rows from empty keys as
\* the combined table has) and has empty cells in every added column, also
\* when a lookup row has an empty key cell.
C24_EmptyKeyNeverMatches ==
    (LoggedEv("merge_ok") /\ Len(combined.rows) > 0) =>
        /\ Cardinality(FromEmptyKey) = Cardinality(EmptyKeyRows)
        /\ \A n \in FromEmptyKey :
              \A p \in (Len(combined.cols) + 1)..Len(final_df.cols) :
                 final_df.rows[n][p] = NaN

\* The same when no lookup row has an empty key cell or the text "nan" as
\* key.
C24_WithoutEmptyLookupKey ==
    (/\ LoggedEv("merge_ok")
     /\ \A m \in 1..Len(LookupTable.rows) :
           Str(LookupTable.rows[m][PositionsOf(LookupTable.cols, LookupKey)[1]]) # "nan")
    => C24_EmptyKeyNeverMatches

(***************************************************************************)
(* Claims about two runs on the same settings and folder (checked under    *)
(* SpecApp, where the settings, the folder and the lookup file stay as     *)
(* they are from run to run).                                              *)
(***************************************************************************)
\* The log has a line of the event.
Has(l, ev) == \E n \in 1..Len(l) : l[n].ev = ev

====
